---- MODULE Spec2Model ----
(***************************************************************************)
(* Model of the candidate service of AI-Resume-Matcher:                    *)
(*   - main.py: the /embed-resume handler embed_resume, run as coroutines  *)
(*     on one cooperative event loop;                                      *)
(*   - embed_jobs.py: the one-time ingestion script embed_jobs.            *)
(*                                                                         *)
(* Strings are sequences of one-character strings.  File contents and      *)
(* texts are run-length encoded: a sequence of runs [b |-> byte, n |-> k]  *)
(* (bytes) or [c |-> code point, n |-> k] (characters), so that files of   *)
(* 10MB and texts of 50,000 characters are ordinary values.                *)
(***************************************************************************)
EXTENDS Integers, Sequences, FiniteSets, TLC

(***************************************************************************)
(* Program constants.                                                      *)
(***************************************************************************)
\* candidate_service.config.MAX_FILE_SIZE: 10MB (main.py docstring, line 38).
MAX_FILE_SIZE == 10485760
\* main.py line 75: len(resume_text.strip()) < 50.
MIN_TEXT_CHARS == 50
\* main.py line 40 (docstring): max text length 50,000 characters.
MAX_TEXT_LENGTH == 50000
\* embed_jobs.py line 101.
batch_size == 100
\* embed_jobs.py line 61: dimension of text-embedding-3-small.
EMBEDDING_DIMENSION == 1536

(***************************************************************************)
(* Bounds of the model.                                                    *)
(***************************************************************************)
\* Largest job file (number of jobs) embed_jobs is run on.
MaxJobs == 201

(***************************************************************************)
(* Strings.                                                                *)
(***************************************************************************)
UpperChars == <<"A", "B", "C", "D", "E", "F", "G", "H", "I", "J", "K", "L", "M",
                "N", "O", "P", "Q", "R", "S", "T", "U", "V", "W", "X", "Y", "Z">>
LowerChars == <<"a", "b", "c", "d", "e", "f", "g", "h", "i", "j", "k", "l", "m",
                "n", "o", "p", "q", "r", "s", "t", "u", "v", "w", "x", "y", "z">>

\* str.lower() on one character.
LowerChar(ch) ==
    IF \E k \in 1..26 : UpperChars[k] = ch
    THEN LowerChars[CHOOSE k \in 1..26 : UpperChars[k] = ch]
    ELSE ch

\* str.lower()
Lower(s) == [k \in 1..Len(s) |-> LowerChar(s[k])]

\* needle in hay
Contains(hay, needle) ==
    \E k \in 0..(Len(hay) - Len(needle)) :
        \A j \in 1..Len(needle) : hay[k + j] = needle[j]

\* s.split('.')[-1]: the text after the last '.', the whole of s when it has none.
SplitLast(s) ==
    LET dots == {k \in 1..Len(s) : s[k] = "."}
    IN  IF dots = {} THEN s
        ELSE LET last == CHOOSE k \in dots : \A j \in dots : j <= k
             IN  SubSeq(s, last + 1, Len(s))

\* main.py line 46:
\*   file.filename.lower().split('.')[-1] if '.' in file.filename else ''
file_ext(filename) ==
    IF Contains(filename, <<".">>) THEN SplitLast(Lower(filename)) ELSE <<>>

PDF == <<"p", "d", "f">>
TXT == <<"t", "x", "t">>

\* main.py line 47: file_ext in ['pdf', 'txt']
SupportedExtLoose(ext) == ext \in {PDF, TXT, <<"d", "o", "c">>}
SupportedExt(ext) == ext \in {PDF, TXT}

(***************************************************************************)
(* Bytes and text, run-length encoded.                                     *)
(***************************************************************************)
RECURSIVE RunTotal(_)
\* len() of a run-length encoded bytes or str value.
RunTotal(runs) ==
    IF runs = <<>> THEN 0 ELSE Head(runs).n + RunTotal(Tail(runs))

\* str.isspace() for one code point (Python's Unicode whitespace).
IsSpace(cp) ==
    \/ cp \in 9..13
    \/ cp \in 28..32
    \/ cp \in {133, 160, 5760, 8232, 8233, 8239, 8287, 12288}
    \/ cp \in 8192..8202

RECURSIVE LStrip(_)
\* str.lstrip()
LStrip(text) ==
    IF text = <<>> THEN <<>>
    ELSE IF Head(text).n = 0 \/ IsSpace(Head(text).c) THEN LStrip(Tail(text))
    ELSE text

RECURSIVE RStrip(_)
\* str.rstrip()
RStrip(text) ==
    IF text = <<>> THEN <<>>
    ELSE LET last == text[Len(text)]
         IN  IF last.n = 0 \/ IsSpace(last.c)
             THEN RStrip(SubSeq(text, 1, Len(text) - 1))
             ELSE text

\* str.strip()
Strip(text) == RStrip(LStrip(text))

(***************************************************************************)
(* bytes.decode("utf-8"), strict: a scan over the byte runs.  The scan     *)
(* state is the number of continuation bytes still owed (pend), the lead   *)
(* byte that owes them, the code point built so far and the text decoded.  *)
(***************************************************************************)
IsContinuation(b) == b \in 128..191

\* Continuation bytes a lead byte announces (0: not a lead byte).
Need(b) ==
    IF b \in 194..223 THEN 1
    ELSE IF b \in 224..239 THEN 2
    ELSE IF b \in 240..244 THEN 3
    ELSE 0

\* Payload bits of a lead byte.
LeadBits(b) ==
    IF b \in 194..223 THEN b - 192
    ELSE IF b \in 224..239 THEN b - 224
    ELSE b - 240

\* The range of the first continuation byte after lead byte `lead`
\* (no overlong forms, no surrogates, nothing above U+10FFFF).
FirstContinuationOk(lead, b) ==
    IF lead = 224 THEN b \in 160..191
    ELSE IF lead = 237 THEN b \in 128..159
    ELSE IF lead = 240 THEN b \in 144..191
    ELSE IF lead = 244 THEN b \in 128..143
    ELSE b \in 128..191

ScanStart == [ok |-> TRUE, pend |-> 0, lead |-> 0, cp |-> 0, out |-> <<>>]
ScanFail(st) == [st EXCEPT !.ok = FALSE]

RECURSIVE ScanRun(_, _, _)
\* The scan over one run of n bytes b.
ScanRun(st, b, n) ==
    IF ~st.ok \/ n = 0 THEN st
    ELSE IF st.pend > 0 THEN
        IF /\ IsContinuation(b)
           /\ (st.pend = Need(st.lead) => FirstContinuationOk(st.lead, b))
        THEN LET cp == st.cp * 64 + (b - 128)
                 nxt == IF st.pend = 1
                        THEN [st EXCEPT !.pend = 0, !.cp = 0,
                                        !.out = Append(st.out, [c |-> cp, n |-> 1])]
                        ELSE [st EXCEPT !.pend = st.pend - 1, !.cp = cp]
             IN  ScanRun(nxt, b, n - 1)
        ELSE ScanFail(st)
    ELSE IF b < 128 THEN [st EXCEPT !.out = Append(st.out, [c |-> b, n |-> n])]
    ELSE IF Need(b) > 0 THEN
        \* a lead byte directly followed by the same lead byte is malformed
        IF n > 1 THEN ScanFail(st)
        ELSE [st EXCEPT !.pend = Need(b), !.lead = b, !.cp = LeadBits(b)]
    ELSE ScanFail(st)

RECURSIVE ScanRuns(_, _)
ScanRuns(st, runs) ==
    IF runs = <<>> THEN st
    ELSE ScanRuns(ScanRun(st, Head(runs).b, Head(runs).n), Tail(runs))

\* Whether the bytes are well-formed UTF-8.
ValidUtf8(bytes) ==
    LET st == ScanRuns(ScanStart, bytes) IN st.ok /\ st.pend = 0

\* bytes.decode("utf-8", errors="replace"): never fails.
DecodeUtf8Replace(bytes) ==
    LET st == ScanRuns(ScanStart, bytes)
    IN  [ok |-> TRUE,
         text |-> IF st.ok /\ st.pend = 0 THEN st.out
                  ELSE Append(st.out, [c |-> 65533, n |-> 1])]

\* main.py lines 70-73: file_bytes.decode("utf-8"), UnicodeDecodeError as ok = FALSE.
DecodeUtf8(bytes) ==
    LET st == ScanRuns(ScanStart, bytes)
    IN  IF st.ok /\ st.pend = 0 THEN [ok |-> TRUE, text |-> st.out]
        ELSE [ok |-> FALSE, text |-> <<>>]

(***************************************************************************)
(* Exceptions and the responses of embed_resume.                           *)
(*                                                                         *)
(* Response codes name the detail strings of main.py:                      *)
(*   FilenameRequired  "Filename is required"                  (line 44)   *)
(*   UnsupportedType   "Only PDF and TXT files are supported"  (line 48)   *)
(*   FileTooLarge      "File too large (...)"                  (line 61)   *)
(*   EmptyFile         "File is empty"                         (line 65)   *)
(*   InvalidEncoding   "TXT file must be UTF-8 encoded"        (line 73)   *)
(*   InsufficientText  "Could not extract sufficient text ..." (line 79)   *)
(*   ConnectionTimeout "Connection timeout. The PDF may ..."   (line 108)  *)
(*   ProcessingError   "Error processing PDF: <message>"       (line 110)  *)
(***************************************************************************)
HTTPException(status, code) ==
    [type |-> "HTTPException", status |-> status, code |-> code,
     kind |-> "none", msg |-> <<>>]

\* Any other exception: what failed (kind) and str(e) (msg).
Exception(kind, msg) ==
    [type |-> "Exception", status |-> 0, code |-> "none", kind |-> kind, msg |-> msg]

ErrorResponse(status, code) ==
    [status |-> status, code |-> code, file_size_bytes |-> 0, text_length |-> 0,
     embedding_dimension |-> 0]

NoResponse == ErrorResponse(0, "none")

TIMEOUT == <<"t", "i", "m", "e", "o", "u", "t">>
CONNECTION == <<"c", "o", "n", "n", "e", "c", "t", "i", "o", "n">>

\* main.py lines 101-110: the except clauses around the body of embed_resume.
ExceptHandler(e) ==
    IF e.type = "HTTPException" THEN ErrorResponse(e.status, e.code)
    ELSE IF Contains(Lower(e.msg), TIMEOUT) \/ Contains(Lower(e.msg), CONNECTION)
    THEN ErrorResponse(500, "ConnectionTimeout")
    ELSE ErrorResponse(500, "ProcessingError")

\* main.py line 56: file_size > MAX_FILE_SIZE
TooLargeNever(file_size) == FALSE
TooLarge(file_size) == file_size > MAX_FILE_SIZE

\* main.py line 75, negated: not (not resume_text or len(resume_text.strip()) < 50)
SufficientTextNoStrip(text) ==
    RunTotal(text) # 0 /\ RunTotal(text) >= MIN_TEXT_CHARS
SufficientText(text) ==
    RunTotal(text) # 0 /\ RunTotal(Strip(text)) >= MIN_TEXT_CHARS

(***************************************************************************)
(* The uploads and the collaborators' outcomes.                            *)
(***************************************************************************)
Run(b, n) == [b |-> b, n |-> n]
Chars(c, n) == [c |-> c, n |-> n]

\* UploadFile.filename ("" stands for a missing filename too: `not file.filename`).
Filenames ==
    { <<>>,
      <<"r", ".", "p", "d", "f">>,
      <<"R", ".", "P", "d", "f">>,
      <<"n", ".", "t", "x", "t">>,
      <<"r", ".", "d", "o", "c">>,
      <<"t", "x", "t">> }

\* File contents any upload may have: empty, small, exactly at and over the limit.
CommonFiles ==
    { <<>>,
      <<Run(65, 50)>>,
      <<Run(65, MAX_FILE_SIZE)>>,
      <<Run(65, MAX_FILE_SIZE + 1)>> }

\* Further contents of text uploads: around the 50 characters, padded with
\* whitespace, two-byte characters, malformed and truncated sequences, and
\* more text than MAX_TEXT_LENGTH.
TextFiles ==
    { <<Run(65, 49)>>,
      <<Run(32, 30), Run(65, 49), Run(10, 2)>>,
      <<Run(32, 1), Run(65, 50), Run(32, 1)>>,
      <<Run(32, 60)>>,
      <<Run(65, 48), Run(195, 1), Run(169, 1)>>,
      <<Run(65, 49), Run(195, 1), Run(169, 1)>>,
      <<Run(194, 1), Run(160, 1), Run(65, 49)>>,
      <<Run(65, 50), Run(255, 1)>>,
      <<Run(65, 50), Run(195, 1)>>,
      <<Run(169, 1), Run(65, 50)>>,
      <<Run(255, MAX_FILE_SIZE + 1)>>,
      <<Run(65, MAX_TEXT_LENGTH + 10000)>> }

Uploads ==
    {[filename |-> f, bytes |-> b] : f \in Filenames, b \in CommonFiles}
    \cup {[filename |-> <<"n", ".", "t", "x", "t">>, bytes |-> b] : b \in TextFiles}

\* candidate_service.pdf_text.extract_text_from_pdf: the cleaned text of at most
\* 10 pages, truncated to MAX_TEXT_LENGTH (empty for an image-only PDF), or a
\* parser error.
PdfOutcomes ==
    {[raised |-> FALSE, text |-> t, exc |-> Exception("none", <<>>)] :
        t \in { <<>>,
                <<Chars(65, 49)>>,
                <<Chars(32, 5), Chars(65, 50)>>,
                <<Chars(65, MAX_TEXT_LENGTH)>> }}
    \cup {[raised |-> TRUE, text |-> <<>>,
           exc |-> Exception("parse", <<"E", "O", "F", " ", "m", "a", "r", "k", "e", "r",
                                        " ", "n", "o", "t", " ", "f", "o", "u", "n", "d">>)]}

\* candidate_service.resume_metadata.extract_resume_metadata: a best-effort
\* record of attributes, or an internal exception.
MetadataOutcomes ==
    {[raised |-> FALSE, value |-> "attributes", exc |-> Exception("none", <<>>)],
     [raised |-> TRUE, value |-> "none",
      exc |-> Exception("internal", <<"b", "a", "d", " ", "r", "e", "g", "e", "x">>)]}

\* get_embedding (embed_jobs.py lines 23-29): the provider's vector, or the
\* client library's exception: a timeout ("Request timed out."), a connection
\* failure ("Connection error.") or a rejected input.
EmbeddingOutcomes ==
    {[raised |-> FALSE, dim |-> EMBEDDING_DIMENSION, exc |-> Exception("none", <<>>)]}
    \cup {[raised |-> TRUE, dim |-> 0, exc |-> e] :
            e \in { Exception("timeout", <<"R", "e", "q", "u", "e", "s", "t", " ", "t", "i",
                                           "m", "e", "d", " ", "o", "u", "t", ".">>),
                    Exception("timeout", <<"R", "e", "a", "d", " ", "T", "i", "m", "e",
                                           "o", "u", "t">>),
                    Exception("connection", <<"C", "o", "n", "n", "e", "c", "t", "i", "o",
                                              "n", " ", "e", "r", "r", "o", "r", ".">>),
                    Exception("malformed", <<"I", "n", "v", "a", "l", "i", "d", " ", "i",
                                             "n", "p", "u", "t">>) }}

(***************************************************************************)
(* State.                                                                  *)
(***************************************************************************)
\* The requests in flight on the event loop.
Reqs == {"A", "B"}
NoReq == "none"

VARIABLES
    pc,               \* where each request's coroutine stands
    running,          \* the coroutine the event loop is executing (NoReq: none)
    upload,           \* each request's UploadFile: filename and content
    resume_text,      \* local resume_text
    resume_metadata,  \* local resume_metadata
    response,         \* what the request returned or raised to the caller
    calls,            \* history: which collaborators the request has called
    raised            \* history: what the collaborators raised in the request

reqVars == <<pc, running, upload, resume_text, resume_metadata, response, calls, raised>>

NoCalls == [extract |-> 0, metadata |-> 0, embedding |-> 0]
NoRaise == [extract |-> "none", metadata |-> "none", embedding |-> "none"]

ReqInit ==
    /\ pc = [r \in Reqs |-> "idle"]
    /\ running = NoReq
    /\ upload = [r \in Reqs |-> [filename |-> <<>>, bytes |-> <<>>]]
    /\ resume_text = [r \in Reqs |-> <<>>]
    /\ resume_metadata = [r \in Reqs |-> "none"]
    /\ response = [r \in Reqs |-> NoResponse]
    /\ calls = [r \in Reqs |-> NoCalls]
    /\ raised = [r \in Reqs |-> NoRaise]

\* The request ends: the response goes to the caller, the event loop is free.
Finish(r, resp) ==
    /\ pc' = [pc EXCEPT ![r] = "done"]
    /\ response' = [response EXCEPT ![r] = resp]
    /\ running' = NoReq

(***************************************************************************)
(* embed_resume, cut at its await and at its calls of the collaborators.   *)
(* Only `await file.read()` hands control back to the event loop; from     *)
(* there to its return the coroutine calls extract_text_from_pdf,          *)
(* extract_resume_metadata and get_embedding as plain functions.           *)
(***************************************************************************)
\* main.py lines 42-53: the request arrives; validation of the filename, then
\* `await file.read()`.
Start(r) ==
    /\ pc[r] = "idle"
    /\ running = NoReq
    /\ \E up \in Uploads :
        /\ upload' = [upload EXCEPT ![r] = up]
        /\ IF up.filename = <<>>
           THEN Finish(r, ErrorResponse(400, "FilenameRequired"))
           ELSE IF ~SupportedExt(file_ext(up.filename))
           THEN Finish(r, ErrorResponse(400, "UnsupportedType"))
           ELSE /\ pc' = [pc EXCEPT ![r] = "await_read"]
                /\ UNCHANGED <<running, response>>
    /\ UNCHANGED <<resume_text, resume_metadata, calls, raised>>

\* main.py lines 53-65: file.read() returns the content of the upload; the
\* size checks.
Resume(r) ==
    /\ pc[r] = "await_read"
    /\ running = NoReq
    /\ LET file_size == RunTotal(upload[r].bytes)
       IN  IF TooLarge(file_size)
           THEN Finish(r, ExceptHandler(HTTPException(400, "FileTooLarge")))
           ELSE IF file_size = 0
           THEN Finish(r, ExceptHandler(HTTPException(400, "EmptyFile")))
           ELSE /\ pc' = [pc EXCEPT ![r] = "extract"]
                /\ running' = r
                /\ UNCHANGED response
    /\ UNCHANGED <<upload, resume_text, resume_metadata, calls, raised>>

\* main.py lines 75-82 after the text is bound.
CheckText(r, text) ==
    /\ resume_text' = [resume_text EXCEPT ![r] = text]
    /\ IF SufficientText(text)
       THEN /\ pc' = [pc EXCEPT ![r] = "metadata"]
            /\ UNCHANGED <<running, response>>
       ELSE Finish(r, ExceptHandler(HTTPException(400, "InsufficientText")))

\* main.py lines 67-82: text extraction and the minimum length.
ExtractText(r) ==
    /\ pc[r] = "extract"
    /\ running = r
    /\ calls' = [calls EXCEPT ![r].extract = 1]
    /\ IF file_ext(upload[r].filename) = PDF
       THEN \E o \in PdfOutcomes :
               IF o.raised
               THEN /\ Finish(r, ExceptHandler(o.exc))
                    /\ raised' = [raised EXCEPT ![r].extract = o.exc.kind]
                    /\ UNCHANGED resume_text
               ELSE /\ CheckText(r, o.text)
                    /\ UNCHANGED raised
       ELSE LET d == DecodeUtf8(upload[r].bytes)
            IN  IF ~d.ok
                THEN /\ Finish(r, ExceptHandler(HTTPException(400, "InvalidEncoding")))
                     /\ UNCHANGED <<resume_text, raised>>
                ELSE /\ CheckText(r, d.text)
                     /\ UNCHANGED raised
    /\ UNCHANGED <<upload, resume_metadata>>

\* main.py line 84: resume_metadata = extract_resume_metadata(resume_text)
ExtractMetadata(r) ==
    /\ pc[r] = "metadata"
    /\ running = r
    /\ calls' = [calls EXCEPT ![r].metadata = 1]
    /\ \E o \in MetadataOutcomes :
        IF o.raised
        THEN /\ Finish(r, ExceptHandler(o.exc))
             /\ raised' = [raised EXCEPT ![r].metadata = o.exc.kind]
             /\ UNCHANGED resume_metadata
        ELSE /\ resume_metadata' = [resume_metadata EXCEPT ![r] = o.value]
             /\ pc' = [pc EXCEPT ![r] = "embedding"]
             /\ UNCHANGED <<running, response, raised>>
    /\ UNCHANGED <<upload, resume_text>>

\* main.py line 85: get_embedding(resume_text) is entered.
EmbedCall(r) ==
    /\ pc[r] = "embedding"
    /\ running = r
    /\ calls' = [calls EXCEPT ![r].embedding = 1]
    /\ pc' = [pc EXCEPT ![r] = "in_get_embedding"]
    /\ UNCHANGED <<running, upload, resume_text, resume_metadata, response, raised>>

\* main.py lines 85-99: get_embedding returns or raises; the success response.
EmbedReturn(r) ==
    /\ pc[r] = "in_get_embedding"
    /\ running = r
    /\ \E o \in EmbeddingOutcomes :
        IF o.raised
        THEN /\ Finish(r, ExceptHandler(o.exc))
             /\ raised' = [raised EXCEPT ![r].embedding = o.exc.kind]
        ELSE /\ Finish(r, [status |-> 200, code |-> "success",
                           file_size_bytes |-> RunTotal(upload[r].bytes),
                           text_length |-> RunTotal(resume_text[r]),
                           embedding_dimension |-> o.dim])
             /\ UNCHANGED raised
    /\ UNCHANGED <<upload, resume_text, resume_metadata, calls>>

(***************************************************************************)
(* embed_jobs.py: the ingestion script.                                    *)
(*                                                                         *)
(* The jobs of the file are named by their positions 1..jobs; the vector   *)
(* prepared for job k is k.  index_ops is the sequence of writes issued to *)
(* the index: [op |-> "delete"] for index.delete(delete_all=True) and      *)
(* [op |-> "upsert", vectors |-> batch] for index.upsert(vectors=batch).   *)
(***************************************************************************)
VARIABLES
    jpc,                 \* where the script stands
    jobs,                \* len(jobs): the number of jobs loaded
    total_vector_count,  \* stats.get("total_vector_count", 0)
    answer,              \* the operator's answer to input()
    i,                   \* jobs handled by the loop so far
    vectors,             \* local vectors: the batch being filled
    index_ops,           \* history: the writes issued to the index
    embed_calls          \* history: number of get_embedding calls

jobVars == <<jpc, jobs, total_vector_count, answer, i, vectors, index_ops, embed_calls>>

YES == <<"y", "e", "s">>

\* What the operator may type at the prompt.
Answers ==
    { YES,
      <<"Y", "E", "S">>,
      <<"n", "o">>,
      <<"y">>,
      <<" ", "y", "e", "s">>,
      <<>> }

\* Vector counts an index that already exists may report.
ExistingCounts == {0, 3}

\* embed_jobs.py lines 49-73 and 88: a new index is created empty.
StatsAfterSetup(exists, count) == IF exists THEN count ELSE 0

\* A confirmation that takes everything but "no" for a yes.
ConfirmsDeleteUnlessNo(ans) == Lower(ans) # <<"n", "o">>
\* embed_jobs.py line 92: response.lower() == "yes"
ConfirmsDelete(ans) == Lower(ans) = YES

\* A flush one vector late.
BatchFullLate(vs) == Len(vs) > batch_size
\* embed_jobs.py line 141: len(vectors) >= batch_size
BatchFull(vs) == Len(vs) >= batch_size

Delete == [op |-> "delete", vectors |-> <<>>]
Upsert(vs) == [op |-> "upsert", vectors |-> vs]

JobsInit ==
    /\ jpc = "start"
    /\ jobs = 0
    /\ total_vector_count = 0
    /\ answer = <<>>
    /\ i = 0
    /\ vectors = <<>>
    /\ index_ops = <<>>
    /\ embed_calls = 0

\* embed_jobs.py lines 78-88: load the job file, set up the index, read its stats.
LoadJobs ==
    /\ jpc = "start"
    /\ \E n \in 0..MaxJobs, exists \in BOOLEAN, count \in ExistingCounts :
        /\ jobs' = n
        /\ total_vector_count' = StatsAfterSetup(exists, count)
    /\ jpc' = "check"
    /\ UNCHANGED <<answer, i, vectors, index_ops, embed_calls>>

\* embed_jobs.py lines 89-102: the prompt on a non-empty index, then the
\* start of the upload phase.
CheckExisting ==
    /\ jpc = "check"
    /\ IF total_vector_count > 0
       THEN \E ans \in Answers :
               /\ answer' = ans
               /\ IF ConfirmsDelete(ans)
                  THEN /\ index_ops' = Append(index_ops, Delete)
                       /\ jpc' = "upload"
                  ELSE /\ jpc' = "returned"
                       /\ UNCHANGED index_ops
       ELSE /\ jpc' = "upload"
            /\ UNCHANGED <<answer, index_ops>>
    /\ i' = 0
    /\ vectors' = <<>>
    /\ UNCHANGED <<jobs, total_vector_count, embed_calls>>

\* embed_jobs.py lines 104-145: one iteration of the loop over the jobs.  The
\* iteration completes, or an exception ends the script (get_embedding of
\* lines 23-29 raises, or the job lacks a job_id or a numeric field).
EmbedJob ==
    /\ jpc = "upload"
    /\ i < jobs
    /\ embed_calls' = embed_calls + 1
    /\ \E ok \in BOOLEAN :
        IF ok
        THEN LET filled == Append(vectors, i + 1)
             IN  /\ IF BatchFull(filled)
                    THEN /\ index_ops' = Append(index_ops, Upsert(filled))
                         /\ vectors' = <<>>
                    ELSE /\ vectors' = filled
                         /\ UNCHANGED index_ops
                 /\ i' = i + 1
                 /\ UNCHANGED jpc
        ELSE /\ jpc' = "failed"
             /\ UNCHANGED <<i, vectors, index_ops>>
    /\ UNCHANGED <<jobs, total_vector_count, answer>>

\* embed_jobs.py lines 147-152: the remaining vectors.
UploadRemaining ==
    /\ jpc = "upload"
    /\ i = jobs
    /\ IF vectors # <<>>
       THEN index_ops' = Append(index_ops, Upsert(vectors))
       ELSE UNCHANGED index_ops
    /\ jpc' = "finished"
    /\ UNCHANGED <<jobs, total_vector_count, answer, i, vectors, embed_calls>>

(***************************************************************************)
(* Specifications.                                                         *)
(***************************************************************************)
vars == <<reqVars, jobVars>>

Init == ReqInit /\ JobsInit

\* The service: requests on the event loop.
Next ==
    \E r \in Reqs :
        \/ Start(r) /\ UNCHANGED jobVars
        \/ Resume(r) /\ UNCHANGED jobVars
        \/ ExtractText(r) /\ UNCHANGED jobVars
        \/ ExtractMetadata(r) /\ UNCHANGED jobVars
        \/ EmbedCall(r) /\ UNCHANGED jobVars
        \/ EmbedReturn(r) /\ UNCHANGED jobVars

Spec == Init /\ [][Next]_vars

\* The ingestion script, run once.
JobsNext ==
    \/ LoadJobs /\ UNCHANGED reqVars
    \/ CheckExisting /\ UNCHANGED reqVars
    \/ EmbedJob /\ UNCHANGED reqVars
    \/ UploadRemaining /\ UNCHANGED reqVars

SpecJobs == Init /\ [][JobsNext]_vars
(***************************************************************************)
(* Properties of embed_resume (specification Spec).                        *)
(***************************************************************************)
Started(r) == pc[r] # "idle"
Done(r) == pc[r] = "done"
Ext(r) == file_ext(upload[r].filename)
Size(r) == RunTotal(upload[r].bytes)
Failed(r, code) == response[r].status = 400 /\ response[r].code = code
StrippedLen(r) == RunTotal(Strip(resume_text[r]))
\* resume_text was bound by line 68 or line 71.
TextBound(r) ==
    /\ calls[r].extract = 1
    /\ pc[r] # "extract"
    /\ raised[r].extract = "none"
    /\ response[r].code # "InvalidEncoding"

\* C1, as stated: every finished request whose extension is outside {pdf, txt}
\* failed with UnsupportedType, and every finished request with a supported
\* extension and a file of zero bytes failed with EmptyFile.
C1_AsStated ==
    \A r \in Reqs : Done(r) =>
        /\ (Ext(r) \notin {PDF, TXT} => Failed(r, "UnsupportedType"))
        /\ (Ext(r) \in {PDF, TXT} /\ Size(r) = 0 => Failed(r, "EmptyFile"))

\* C1, amended: the same for every request that carries a filename; a request
\* without a filename failed with FilenameRequired.
C1_ExtensionAndEmptyFile ==
    \A r \in Reqs : Done(r) =>
        /\ (upload[r].filename # <<>> /\ Ext(r) \notin {PDF, TXT}
                => Failed(r, "UnsupportedType"))
        /\ (Ext(r) \in {PDF, TXT} /\ Size(r) = 0 => Failed(r, "EmptyFile"))
        /\ (upload[r].filename = <<>> => Failed(r, "FilenameRequired"))

\* C1 witness: one request with an unsupported extension was rejected and
\* another, an empty file named R.Pdf, failed with EmptyFile.
C1_Witness ==
    \E r, q \in Reqs :
        /\ Done(r) /\ upload[r].filename = <<"r", ".", "d", "o", "c">>
        /\ Failed(r, "UnsupportedType")
        /\ Done(q) /\ upload[q].filename = <<"R", ".", "P", "d", "f">>
        /\ upload[q].bytes = <<>>
        /\ Failed(q, "EmptyFile")

\* C2, as stated: a request whose upload is larger than MAX_FILE_SIZE never
\* calls text extraction, attribute extraction or the embedding, and ends
\* with FileTooLarge.
C2_AsStated ==
    \A r \in Reqs : Started(r) /\ Size(r) > MAX_FILE_SIZE =>
        /\ calls[r] = NoCalls
        /\ (Done(r) => Failed(r, "FileTooLarge"))

\* C2, amended: a request whose upload is larger than MAX_FILE_SIZE never
\* calls text extraction, attribute extraction or the embedding; it ends with
\* FileTooLarge when its filename has the extension pdf or txt.
C2_TooLargeStopsBeforeExtraction ==
    \A r \in Reqs : Started(r) /\ Size(r) > MAX_FILE_SIZE =>
        /\ calls[r] = NoCalls
        /\ (Done(r) /\ Ext(r) \in {PDF, TXT} => Failed(r, "FileTooLarge"))

\* C2 witness: a PDF one byte over the limit was refused.
C2_Witness ==
    \E r \in Reqs :
        /\ Done(r)
        /\ Ext(r) = PDF
        /\ Size(r) = MAX_FILE_SIZE + 1
        /\ Failed(r, "FileTooLarge")

\* C3: a TXT upload of 1..MAX_FILE_SIZE bytes that are not well-formed UTF-8
\* never gets a text bound, never reaches the embedding, and ends with the
\* client error InvalidEncoding (status 400, not 500).
C3_InvalidEncodingIsClientError ==
    \A r \in Reqs :
        /\ Started(r)
        /\ Ext(r) = TXT
        /\ Size(r) > 0
        /\ Size(r) <= MAX_FILE_SIZE
        /\ ~ValidUtf8(upload[r].bytes)
        => /\ resume_text[r] = <<>>
           /\ calls[r].embedding = 0
           /\ (Done(r) => Failed(r, "InvalidEncoding"))

\* C3 witness: a text file ending in the byte 0xFF was refused.
C3_Witness ==
    \E r \in Reqs :
        /\ Done(r)
        /\ upload[r].bytes = <<Run(65, 50), Run(255, 1)>>
        /\ calls[r].extract = 1
        /\ Failed(r, "InvalidEncoding")

\* C4: a success response and a call of get_embedding only ever happen on a
\* text of at least 50 characters after trimming; a request whose extracted
\* text is empty or shorter ends with InsufficientText, with no embedding call.
C4_NoSuccessOnInsufficientText ==
    \A r \in Reqs :
        /\ (response[r].status = 200 => StrippedLen(r) >= MIN_TEXT_CHARS)
        /\ (calls[r].embedding = 1 => StrippedLen(r) >= MIN_TEXT_CHARS)
        /\ (Done(r) /\ TextBound(r) /\ StrippedLen(r) < MIN_TEXT_CHARS
                => Failed(r, "InsufficientText") /\ calls[r].embedding = 0)

\* C4 witness: a PDF with no extractable text ended with InsufficientText.
C4_Witness ==
    \E r \in Reqs :
        /\ Done(r)
        /\ Ext(r) = PDF
        /\ TextBound(r)
        /\ resume_text[r] = <<>>
        /\ Failed(r, "InsufficientText")

\* C5: in every success response the text has at most 50,000 characters and
\* text_length is its length.
C5_SuccessTextIsTruncated ==
    \A r \in Reqs : response[r].status = 200 =>
        /\ RunTotal(resume_text[r]) <= MAX_TEXT_LENGTH
        /\ response[r].text_length = RunTotal(resume_text[r])
        /\ response[r].text_length <= MAX_TEXT_LENGTH

\* C6: a request in which extract_resume_metadata raised still went on to
\* the embedding step, and was not failed by that exception.
C6_MetadataFailureDoesNotAbort ==
    \A r \in Reqs : Done(r) /\ raised[r].metadata # "none" =>
        /\ calls[r].embedding = 1
        /\ resume_metadata[r] = "none"

\* C7: when get_embedding raised, a timeout or connection failure is reported
\* as the transient outcome, a malformed-input failure is not, and neither is
\* a client error.
C7_EmbeddingFailuresDistinguished ==
    \A r \in Reqs : Done(r) =>
        /\ (raised[r].embedding \in {"timeout", "connection"}
                => response[r].code = "ConnectionTimeout")
        /\ (raised[r].embedding = "malformed"
                => response[r].code # "ConnectionTimeout")
        /\ (raised[r].embedding # "none" => response[r].status # 400)

\* C8: while one request is inside its text extraction or its get_embedding
\* call, another request that has arrived or is waiting for its read is able
\* to take its next step.
C8_OthersRunDuringExternalCalls ==
    \A a, b \in Reqs :
        /\ a # b
        /\ pc[a] \in {"extract", "in_get_embedding"}
        /\ pc[b] \in {"idle", "await_read"}
        => ENABLED (Start(b) \/ Resume(b))

(***************************************************************************)
(* Properties of embed_jobs (specification SpecJobs).                      *)
(***************************************************************************)
\* The batches of the upsert calls, in the order issued.
Batches == SelectSeq(index_ops, LAMBDA o : o.op = "upsert")

RECURSIVE Concat(_)
\* The vectors of a sequence of upsert calls, in the order sent.
Concat(ops) == IF ops = <<>> THEN <<>> ELSE Head(ops).vectors \o Concat(Tail(ops))

\* C9: when the script has finished the upload phase, the upsert calls
\* together carry the jobs 1..N once each in file order, and every call
\* carries between 1 and 100 vectors.
C9_EveryJobUpsertedOnce ==
    jpc = "finished" =>
        /\ Concat(Batches) = [k \in 1..jobs |-> k]
        /\ \A k \in 1..Len(Batches) :
              /\ Len(Batches[k].vectors) >= 1
              /\ Len(Batches[k].vectors) <= 100

\* C9 witness: a file of 201 jobs went out as two full batches and one of 1.
C9_Witness ==
    /\ jpc = "finished"
    /\ jobs = 2 * batch_size + 1
    /\ Len(Batches) = 3
    /\ Len(Batches[3].vectors) = 1

\* C10: after the prompt on a non-empty index, an answer other than "yes"
\* (lower-cased) ends the run with no write to the index and no embedding
\* call; a delete is issued only on a non-empty index after a "yes", once,
\* and before any upsert.
C10_DeclinedRunLeavesIndex ==
    /\ (jpc \notin {"start", "check"} /\ total_vector_count > 0
           /\ Lower(answer) # <<"y", "e", "s">>
           => jpc = "returned" /\ index_ops = <<>> /\ embed_calls = 0)
    /\ \A k \in 1..Len(index_ops) :
           index_ops[k].op = "delete" =>
               /\ k = 1
               /\ total_vector_count > 0
               /\ Lower(answer) = <<"y", "e", "s">>

\* C10 witness: the operator answered " yes" (not "yes") on a non-empty
\* index and the run returned.
C10_Witness ==
    /\ jpc = "returned"
    /\ total_vector_count > 0
    /\ answer = <<" ", "y", "e", "s">>
    /\ index_ops = <<>>
====
